---- MODULE Spec2Model ----
(***************************************************************************)
(* Model of lib/writer.js of generate-changelog: getCommitUrl() and the    *)
(* promise chain of markdown().  A JavaScript string is a sequence of      *)
(* one-character strings, so that substring(), slice(), indexOf(), trim(), *)
(* replace() and the sort of the keys are computed on the characters.      *)
(***************************************************************************)
EXTENDS Integers, Sequences, FiniteSets, TLC

\* ------------------------------------------------------------------------
\* JavaScript strings
\* ------------------------------------------------------------------------

\* The value `undefined` (a missing property); no string equals it.
Undefined == <<"undefined">>

\* A value is truthy unless it is undefined or the empty string.
Truthy(v) == v # Undefined /\ v # <<>>

\* The ASCII characters from the space to the underscore (code units 32 to
\* 95) and from a to the tilde (97 to 126), in ascending order.
UpToUnderscore ==
  <<" ", "!", "\"", "#", "$", "%", "&", "'", "(", ")", "*", "+", ",", "-", ".", "/", "0", "1", "2", "3", "4", "5", "6", "7", "8", "9", ":", ";", "<", "=", ">", "?", "@", "A", "B", "C", "D", "E", "F", "G", "H", "I", "J", "K", "L", "M", "N", "O", "P", "Q", "R", "S", "T", "U", "V", "W", "X", "Y", "Z", "[", "\\", "]", "^", "_">>

FromLowerA == <<"a", "b", "c", "d", "e", "f", "g", "h", "i", "j", "k", "l", "m", "n", "o", "p", "q", "r", "s", "t", "u", "v", "w", "x", "y", "z", "{", "|", "}", "~">>

\* The UTF-16 code unit of a character.
CodeUnit(c) ==
  IF c = "\n" THEN 10
  ELSE IF \E k \in 1..Len(UpToUnderscore) : UpToUnderscore[k] = c
       THEN 31 + (CHOOSE k \in 1..Len(UpToUnderscore) : UpToUnderscore[k] = c)
       ELSE 96 + (CHOOSE k \in 1..Len(FromLowerA) : FromLowerA[k] = c)

Digits == {"0", "1", "2", "3", "4", "5", "6", "7", "8", "9"}

WhiteSpace == {" ", "\n", "\t", "\r"}

Min(a, b) == IF a < b THEN a ELSE b

Max(a, b) == IF a > b THEN a ELSE b

\* String.prototype.substring(start, end), both arguments given.
Substring(s, start, end) ==
  LET a == Min(Max(start, 0), Len(s))
      b == Min(Max(end, 0), Len(s))
  IN SubSeq(s, Min(a, b) + 1, Max(a, b))

\* String.prototype.slice(start, end); a negative index counts from the end.
Slice(s, start, end) ==
  LET a == IF start < 0 THEN Max(Len(s) + start, 0) ELSE Min(start, Len(s))
      b == IF end < 0 THEN Max(Len(s) + end, 0) ELSE Min(end, Len(s))
  IN SubSeq(s, a + 1, b)

\* String.prototype.slice(start) with the end omitted.
SliceFrom(s, start) == Slice(s, start, Len(s))

\* String.prototype.indexOf(p): the first 0-based position of p, or -1.
IndexOf(s, p) ==
  LET hits == {k \in 0..(Len(s) - Len(p)) : SubSeq(s, k + 1, k + Len(p)) = p}
  IN IF hits = {} THEN -1 ELSE CHOOSE k \in hits : \A h \in hits : k <= h

\* The first position from p upwards that holds no white space.
RECURSIVE TrimStart(_, _)
TrimStart(s, p) ==
  IF p <= Len(s) /\ s[p] \in WhiteSpace THEN TrimStart(s, p + 1) ELSE p

\* The last position from p downwards that holds no white space.
RECURSIVE TrimEnd(_, _)
TrimEnd(s, p) ==
  IF p >= 1 /\ s[p] \in WhiteSpace THEN TrimEnd(s, p - 1) ELSE p

\* String.prototype.trim().
Trim(s) == SubSeq(s, TrimStart(s, 1), TrimEnd(s, Len(s)))

\* String.prototype.replaceAll(from, to) for a one-character pattern.
RECURSIVE ReplaceAll(_, _, _)
ReplaceAll(s, from, to) ==
  IF s = <<>> THEN <<>>
  ELSE (IF Head(s) = from THEN to ELSE <<Head(s)>>) \o ReplaceAll(Tail(s), from, to)

\* Array.prototype.join(sep).
RECURSIVE Join(_, _)
Join(arr, sep) ==
  IF arr = <<>> THEN <<>>
  ELSE IF Len(arr) = 1 THEN arr[1]
  ELSE arr[1] \o sep \o Join(Tail(arr), sep)

\* The comparison of the default Array.prototype.sort(): a < b by code units.
RECURSIVE StrLess(_, _)
StrLess(a, b) ==
  IF b = <<>> THEN FALSE
  ELSE IF a = <<>> THEN TRUE
  ELSE IF Head(a) = Head(b) THEN StrLess(Tail(a), Tail(b))
  ELSE CodeUnit(Head(a)) < CodeUnit(Head(b))

\* Array.prototype.sort() without a comparator, as an insertion sort.
RECURSIVE SortInsert(_, _)
SortInsert(sorted, key) ==
  IF sorted = <<>> THEN <<key>>
  ELSE IF StrLess(key, Head(sorted)) THEN <<key>> \o sorted
  ELSE <<Head(sorted)>> \o SortInsert(Tail(sorted), key)

\* Sort that leaves the array as it is.
SortNothing(arr) == arr

RECURSIVE Sort(_)
Sort(arr) ==
  IF arr = <<>> THEN <<>>
  ELSE SortInsert(Sort(SubSeq(arr, 1, Len(arr) - 1)), arr[Len(arr)])

\* ------------------------------------------------------------------------
\* JavaScript objects used as maps
\* ------------------------------------------------------------------------

\* A plain object is the sequence of its own properties [key, val] in the
\* order in which they were created.
HasOwn(obj, key) == \E n \in 1..Len(obj) : obj[n].key = key

GetOwn(obj, key) == obj[CHOOSE n \in 1..Len(obj) : obj[n].key = key].val

\* obj[key] = val: an existing property keeps its place, a new one is last.
SetOwn(obj, key, val) ==
  IF HasOwn(obj, key)
  THEN [n \in 1..Len(obj) |->
          IF obj[n].key = key THEN [key |-> key, val |-> val] ELSE obj[n]]
  ELSE Append(obj, [key |-> key, val |-> val])

\* The names every plain object inherits from Object.prototype with a
\* function as value (the accessor __proto__ and the legacy __defineGetter__
\* family are left out; no input below uses them).
ObjectPrototypeKeys ==
  { <<"c", "o", "n", "s", "t", "r", "u", "c", "t", "o", "r">>, <<"t", "o", "S", "t", "r", "i", "n", "g">>, <<"t", "o", "L", "o", "c", "a", "l", "e", "S", "t", "r", "i", "n", "g">>, <<"v", "a", "l", "u", "e", "O", "f">>,
    <<"h", "a", "s", "O", "w", "n", "P", "r", "o", "p", "e", "r", "t", "y">>, <<"i", "s", "P", "r", "o", "t", "o", "t", "y", "p", "e", "O", "f">>, <<"p", "r", "o", "p", "e", "r", "t", "y", "I", "s", "E", "n", "u", "m", "e", "r", "a", "b", "l", "e">> }

\* An array index: a canonical decimal numeral not above 2^32 - 2.
IsArrayIndex(key) ==
  /\ key # <<>>
  /\ \A n \in 1..Len(key) : key[n] \in Digits
  /\ (Len(key) = 1 \/ key[1] # "0")
  /\ \/ Len(key) < 10
     \/ Len(key) = 10 /\ ~StrLess(<<"4", "2", "9", "4", "9", "6", "7", "2", "9", "4">>, key)

\* a < b for two array indices.
IndexLess(a, b) == Len(a) < Len(b) \/ (Len(a) = Len(b) /\ StrLess(a, b))

RECURSIVE IndexInsert(_, _)
IndexInsert(sorted, key) ==
  IF sorted = <<>> THEN <<key>>
  ELSE IF IndexLess(key, Head(sorted)) THEN <<key>> \o sorted
  ELSE <<Head(sorted)>> \o IndexInsert(Tail(sorted), key)

RECURSIVE IndexKeys(_)
IndexKeys(obj) ==
  IF obj = <<>> THEN <<>>
  ELSE LET rest == IndexKeys(SubSeq(obj, 1, Len(obj) - 1))
           last == obj[Len(obj)].key
       IN IF IsArrayIndex(last) THEN IndexInsert(rest, last) ELSE rest

RECURSIVE StringKeys(_)
StringKeys(obj) ==
  IF obj = <<>> THEN <<>>
  ELSE (IF IsArrayIndex(Head(obj).key) THEN <<>> ELSE <<Head(obj).key>>)
       \o StringKeys(Tail(obj))

\* Object.keys(obj): the array indices in ascending numeric order, then the
\* other keys in creation order.
ObjectKeys(obj) == IndexKeys(obj) \o StringKeys(obj)

\* ------------------------------------------------------------------------
\* lib/writer.js
\* ------------------------------------------------------------------------

DEFAULT_TYPE == <<"o", "t", "h", "e", "r">>

TYPES ==
  << [key |-> <<"b", "r", "e", "a", "k", "i", "n", "g">>, val |-> <<"B", "r", "e", "a", "k", "i", "n", "g", " ", "C", "h", "a", "n", "g", "e", "s", " ", ":", "b", "o", "o", "m", ":">>],
     [key |-> <<"b", "u", "i", "l", "d">>,
      val |-> <<"B", "u", "i", "l", "d", " ", "S", "y", "s", "t", "e", "m", " ", "/", " ", "D", "e", "p", "e", "n", "d", "e", "n", "c", "i", "e", "s", " ", ":", "c", "o", "n", "s", "t", "r", "u", "c", "t", "i", "o", "n", "_", "w", "o", "r", "k", "e", "r", ":", " ", ":", "a", "r", "r", "o", "w", "_", "u", "p", ":">>],
     [key |-> <<"c", "i">>, val |-> <<"C", "o", "n", "t", "i", "n", "u", "o", "u", "s", " ", "I", "n", "t", "e", "g", "r", "a", "t", "i", "o", "n", " ", ":", "r", "o", "c", "k", "e", "t", ":">>],
     [key |-> <<"d", "o", "c", "s">>, val |-> <<"D", "o", "c", "u", "m", "e", "n", "t", "a", "t", "i", "o", "n", " ", "C", "h", "a", "n", "g", "e", "s", " ", ":", "m", "e", "m", "o", ":">>],
     [key |-> <<"f", "e", "a", "t">>, val |-> <<"N", "e", "w", " ", "F", "e", "a", "t", "u", "r", "e", "s", " ", ":", "s", "p", "a", "r", "k", "l", "e", "s", ":">>],
     [key |-> <<"f", "i", "x">>, val |-> <<"B", "u", "g", " ", "F", "i", "x", "e", "s", " ", ":", "b", "u", "g", ":">>],
     [key |-> <<"p", "e", "r", "f">>, val |-> <<"P", "e", "r", "f", "o", "r", "m", "a", "n", "c", "e", " ", "I", "m", "p", "r", "o", "v", "e", "m", "e", "n", "t", "s", " ", ":", "z", "a", "p", ":">>],
     [key |-> <<"r", "e", "f", "a", "c", "t", "o", "r">>, val |-> <<"R", "e", "f", "a", "c", "t", "o", "r", "s", " ", ":", "r", "e", "c", "y", "c", "l", "e", ":">>],
     [key |-> <<"s", "t", "y", "l", "e">>, val |-> <<"C", "o", "d", "e", " ", "S", "t", "y", "l", "e", " ", "C", "h", "a", "n", "g", "e", "s", " ", ":", "a", "r", "t", ":", " ", ":", "l", "i", "p", "s", "t", "i", "c", "k", ":">>],
     [key |-> <<"t", "e", "s", "t">>, val |-> <<"T", "e", "s", "t", "s", " ">> \o <<"U+D83E", "U+DDEA">>],
     [key |-> <<"o", "t", "h", "e", "r">>, val |-> <<"O", "t", "h", "e", "r", " ", "C", "h", "a", "n", "g", "e", "s", " ", ":", "q", "u", "e", "s", "t", "i", "o", "n", ":">>] >>

\* TYPES[type] is truthy: an own heading or an inherited function.
TypesTruthy(type) == HasOwn(TYPES, type) \/ type \in ObjectPrototypeKeys

\* The number of digits of s from position p (1-based) on.
RECURSIVE DigitRun(_, _)
DigitRun(s, p) ==
  IF p <= Len(s) /\ s[p] \in Digits THEN 1 + DigitRun(s, p + 1) ELSE 0

\* The end (exclusive) of the match of PR_REGEX, /#[1-9][\d]*/, at p; 0 if
\* there is none.
PR_REGEX(s, p) ==
  IF s[p] = "#" /\ p < Len(s) /\ s[p + 1] \in Digits \ {"0"}
  THEN p + 1 + DigitRun(s, p + 1)
  ELSE 0

\* getCommitUrl that drops a final .git for every provider.
getCommitUrlAnyGit(baseUrl, commitHash) ==
  LET urlCommitName ==
        IF IndexOf(baseUrl, <<"b", "i", "t", "b", "u", "c", "k", "e", "t">>) # -1 THEN <<"c", "o", "m", "m", "i", "t", "s">> ELSE <<"c", "o", "m", "m", "i", "t">>
      base ==
        IF SliceFrom(baseUrl, -4) = <<".", "g", "i", "t">> THEN Slice(baseUrl, 0, -4)
        ELSE baseUrl
  IN base \o <<"/">> \o urlCommitName \o <<"/">> \o commitHash

getCommitUrl(baseUrl, commitHash) ==
  LET urlCommitName ==
        IF IndexOf(baseUrl, <<"b", "i", "t", "b", "u", "c", "k", "e", "t">>) # -1 THEN <<"c", "o", "m", "m", "i", "t", "s">> ELSE <<"c", "o", "m", "m", "i", "t">>
      base ==
        IF IndexOf(baseUrl, <<"g", "i", "t", "l", "a", "b">>) # -1 /\ SliceFrom(baseUrl, -4) = <<".", "g", "i", "t">>
        THEN Slice(baseUrl, 0, -4)
        ELSE baseUrl
  IN base \o <<"/">> \o urlCommitName \o <<"/">> \o commitHash

\* PrLink with the Markdown replacer for every type.
PrLinkMarkdown(pr, type, repoUrl) ==
  <<"[">> \o pr \o <<"]", "(">> \o repoUrl \o <<"/", "p", "u", "l", "l", "/">> \o SliceFrom(pr, 1) \o <<")">>

\* The two replacer callbacks of subject.replace(PR_REGEX, ...).
PrLink(pr, type, repoUrl) ==
  IF type = <<"b", "r", "e", "a", "k", "i", "n", "g">>
  THEN <<"<", "a", " ", "h", "r", "e", "f", "=", "\"">> \o repoUrl \o <<"/", "p", "u", "l", "l", "/">> \o SliceFrom(pr, 1) \o <<"\"", ">">>
       \o pr \o <<"<", "/", "a", ">">>
  ELSE <<"[">> \o pr \o <<"]", "(">> \o repoUrl \o <<"/", "p", "u", "l", "l", "/">> \o SliceFrom(pr, 1) \o <<")">>

\* subject.replace(PR_REGEX, replacer) from position p on: every match, left
\* to right, the search resuming where the match ended.
RECURSIVE ReplacePr(_, _, _, _)
ReplacePr(s, p, type, repoUrl) ==
  IF p > Len(s) THEN <<>>
  ELSE LET e == PR_REGEX(s, p)
       IN IF e > 0
          THEN PrLink(SubSeq(s, p, e - 1), type, repoUrl)
               \o ReplacePr(s, e, type, repoUrl)
          ELSE <<s[p]>> \o ReplacePr(s, p + 1, type, repoUrl)

\* (.)* from p: up to the next newline or the end.
RECURSIVE SkipDots(_, _)
SkipDots(s, p) == IF p <= Len(s) /\ s[p] # "\n" THEN SkipDots(s, p + 1) ELSE p

\* (\n)* from p.
RECURSIVE SkipNewlines(_, _)
SkipNewlines(s, p) ==
  IF p <= Len(s) /\ s[p] = "\n" THEN SkipNewlines(s, p + 1) ELSE p

\* (\n)*(.)* repeated `more` times from p.
RECURSIVE SkipLines(_, _, _)
SkipLines(s, p, more) ==
  IF more = 0 THEN p
  ELSE SkipLines(s, SkipDots(s, SkipNewlines(s, p)), more - 1)

\* TrailerMatch for /(\n)*(marker).../: the newlines before the marker
\* optional.
TrailerMatchNoNewline(s, p, marker, more) ==
  LET q == SkipNewlines(s, p)
  IN IF q + Len(marker) - 1 <= Len(s) /\ SubSeq(s, q, q + Len(marker) - 1) = marker
     THEN SkipLines(s, SkipDots(s, q + Len(marker)), more)
     ELSE 0

\* The end (exclusive) of the match at p of
\* /(\n)+(marker)(.)*((\n)*(.)*){more}/; 0 if there is none.
TrailerMatch(s, p, marker, more) ==
  IF s[p] # "\n" THEN 0
  ELSE LET q == SkipNewlines(s, p)
       IN IF q + Len(marker) - 1 <= Len(s) /\ SubSeq(s, q, q + Len(marker) - 1) = marker
          THEN SkipLines(s, SkipDots(s, q + Len(marker)), more)
          ELSE 0

\* body.replace(/(\n)+(marker).../g, '$1 ') from position p on; $1 is the
\* last newline matched by the first group.
RECURSIVE TrailerReplace(_, _, _, _)
TrailerReplace(s, p, marker, more) ==
  IF p > Len(s) THEN <<>>
  ELSE LET e == TrailerMatch(s, p, marker, more)
       IN IF e > 0
          THEN <<"\n", " ">> \o TrailerReplace(s, e, marker, more)
          ELSE <<s[p]>> \o TrailerReplace(s, p + 1, marker, more)

\* Lines 134-136: the three replacements, each skipped on an empty body.
StripTrailers(body) ==
  LET b0 == IF Truthy(body) THEN body ELSE <<>>
      b1 == IF Truthy(b0) THEN TrailerReplace(b0, 1, <<"E", "N", "D", " ", "B", "R", "E", "A", "K", "I", "N", "G", " ", "C", "H", "A", "N", "G", "E">>, 4) ELSE <<>>
      b2 == IF Truthy(b1) THEN TrailerReplace(b1, 1, <<"S", "e", "e">>, 3) ELSE <<>>
      b3 == IF Truthy(b2) THEN TrailerReplace(b2, 1, <<"C", "l", "o", "s", "e", "s">>, 2) ELSE <<>>
  IN b3

\* DetailsBlock without the indentation of the lines after the first.
DetailsBlockFirstLineOnly(commit, breaking, subject, shorthash) ==
  <<"\n", " ", " ", " ", "*", " ", "<", "d", "e", "t", "a", "i", "l", "s", ">", "\n", " ", " ", " ", " ", " ", " ", "<", "s", "u", "m", "m", "a", "r", "y", ">">> \o breaking \o Trim(subject)
  \o <<" ", "(">> \o shorthash \o <<")", "<", "/", "s", "u", "m", "m", "a", "r", "y", ">", "\n", "\n">>
  \o <<" ", " ", " ", " ", " ", " ">> \o StripTrailers(commit.body) \o <<"<", "/", "d", "e", "t", "a", "i", "l", "s", ">">>

\* Lines 137-140: the indented body inside the collapsible block.
DetailsBlock(commit, breaking, subject, shorthash) ==
  LET b4 == <<" ", " ", " ", " ", " ", " ">> \o StripTrailers(commit.body)
      b5 == IF Truthy(b4) THEN ReplaceAll(b4, "\n", <<"\n", " ", " ", " ", " ", " ", " ">>) ELSE <<>>
  IN <<"\n", " ", " ", " ", "*", " ", "<", "d", "e", "t", "a", "i", "l", "s", ">", "\n", " ", " ", " ", " ", " ", " ", "<", "s", "u", "m", "m", "a", "r", "y", ">">> \o breaking \o Trim(subject)
     \o <<" ", "(">> \o shorthash \o <<")", "<", "/", "s", "u", "m", "m", "a", "r", "y", ">", "\n", "\n">> \o b5 \o <<"<", "/", "d", "e", "t", "a", "i", "l", "s", ">">>

\* The callback of line 111 throws a TypeError: commit.hash.substring, or
\* subject.replace / subject.trim, of undefined.
CommitThrows(commit) == commit.hash = Undefined \/ commit.subject = Undefined

\* The callback of line 111: the element pushed on content for one commit.
CommitLine(commit, type, prefix, options) ==
  LET linked == Truthy(options.repoUrl)
      short == Substring(commit.hash, 0, 8)
      url == getCommitUrl(options.repoUrl, commit.hash)
      shorthash ==
        IF ~linked THEN short
        ELSE IF type = <<"b", "r", "e", "a", "k", "i", "n", "g">>
             THEN <<"<", "a", " ", "h", "r", "e", "f", "=", "\"">> \o url \o <<"\"", ">">> \o short \o <<"<", "/", "a", ">">>
             ELSE <<"[">> \o short \o <<"]", "(">> \o url \o <<")">>
      subject ==
        IF linked THEN ReplacePr(commit.subject, 1, type, options.repoUrl)
        ELSE commit.subject
      breaking ==
        IF Truthy(commit.flagIfBreaking)
        THEN <<"(">> \o commit.flagIfBreaking \o <<")", ":", " ">>
        ELSE <<>>
      body == DetailsBlock(commit, breaking, subject, shorthash)
  IN IF type = <<"b", "r", "e", "a", "k", "i", "n", "g">>
     THEN IF prefix = <<"*">> THEN <<" ">> \o Trim(body) ELSE prefix \o <<" ">> \o body
     ELSE prefix \o <<" ">> \o breaking \o Trim(subject) \o <<" ", "(">> \o shorthash \o <<")">>

\* ResolveType without the fallback to DEFAULT_TYPE.
ResolveTypeNoFallback(commit, options) == commit.type

\* Line 77: (TYPES[commit.type] || options.allowUnknown) ? commit.type
\*                                                          : DEFAULT_TYPE.
ResolveType(commit, options) ==
  IF TypesTruthy(commit.type) \/ options.allowUnknown
  THEN commit.type
  ELSE DEFAULT_TYPE

\* Lines 90-94: the text after '##### '.
TypeDescription(type, options) ==
  IF HasOwn(TYPES, type) THEN GetOwn(TYPES, type)
  ELSE IF options.allowUnknown
       THEN GetOwn(TYPES, <<"o", "t", "h", "e", "r">>) \o <<" ", "(">> \o type \o <<")">>
       ELSE <<"u", "n", "d", "e", "f", "i", "n", "e", "d">>

\* Lines 111-152: the commits of one bucket from the n-th on; acc is
\* [content, threw], and a throw ends the iteration.
RECURSIVE RenderCommits(_, _, _, _, _, _)
RenderCommits(list, n, type, prefix, options, acc) ==
  IF n > Len(list) \/ acc.threw THEN acc
  ELSE IF CommitThrows(list[n]) THEN [acc EXCEPT !.threw = TRUE]
  ELSE RenderCommits(list, n + 1, type, prefix, options,
         [acc EXCEPT !.content =
            Append(@, CommitLine(list[n], type, prefix, options))])

\* IsHeaded without the test of the category.
IsHeadedAnyCategory(category, list) == Len(list) > 1

\* Lines 101 and 104: nested && category.
IsHeaded(category, list) == Len(list) > 1 /\ Truthy(category)

\* Lines 99-153: the categories of one type from the n-th key on.
RECURSIVE RenderCategories(_, _, _, _, _, _)
RenderCategories(bucket, cats, n, type, options, acc) ==
  IF n > Len(cats) \/ acc.threw THEN acc
  ELSE LET category == cats[n]
           list == GetOwn(bucket, category)
           categoryHeading ==
             <<"*">> \o (IF Truthy(category) THEN <<" ", "*", "*">> \o category \o <<":", "*", "*">>
                      ELSE <<>>)
           headed == IsHeaded(category, list)
           prefix == IF headed THEN <<" ", " ", "*">> ELSE categoryHeading
           acc1 == IF headed
                   THEN [acc EXCEPT !.content = Append(@, categoryHeading)]
                   ELSE acc
       IN RenderCategories(bucket, cats, n + 1, type, options,
            RenderCommits(list, 1, type, prefix, options, acc1))

\* Lines 88-156: the callback of the second .each(), for one type key.
RenderSection(type, bucket, options, content0) ==
  LET acc0 == [content |-> content0 \o
                 << <<"#", "#", "#", "#", "#", " ">> \o TypeDescription(type, options), <<>> >>,
               threw |-> FALSE]
      acc1 == RenderCategories(bucket, ObjectKeys(bucket), 1, type, options, acc0)
  IN IF acc1.threw THEN acc1
     ELSE [acc1 EXCEPT !.content = Append(@, <<>>)]

\* Lines 57-69.
Heading(version, options, date) ==
  LET marker == IF options.major THEN <<"#", "#">>
                ELSE IF options.minor THEN <<"#", "#", "#">>
                ELSE <<"#", "#", "#", "#">>
  IN IF Truthy(version)
     THEN marker \o <<" ">> \o version \o <<" ", "(">> \o date \o <<")">>
     ELSE marker \o <<" ">> \o date

\* ------------------------------------------------------------------------
\* The state of one call of markdown(version, commits, options)
\* ------------------------------------------------------------------------

VARIABLES
  version,       \* argument
  commits,       \* argument: the array of parsed commits
  options,       \* argument: major, minor, allowUnknown, repoUrl
  date,          \* new Date().toJSON().slice(0, 10)
  pc,            \* "group", "render", "done" (resolved) or "rejected"
  index,         \* commits handled by the first .each()
  types,         \* this.types
  inherited,     \* properties put on the functions of Object.prototype
  keys,          \* the array the first .then() returns
  keyIndex,      \* keys handled by the second .each()
  content,       \* the array of output elements
  result         \* the value the promise is resolved with

vars == << version, commits, options, date, pc, index, types, inherited,
           keys, keyIndex, content, result >>

\* Lines 76-84: the callback of the first .each(), for one commit.
GroupCommit ==
  /\ pc = "group"
  /\ index < Len(commits)
  /\ LET commit == commits[index + 1]
         type == ResolveType(commit, options)
         category == commit.category
         \* this.types[type] is a function inherited from Object.prototype
         onProto == ~HasOwn(types, type) /\ type \in ObjectPrototypeKeys
         types1 == IF HasOwn(types, type) \/ onProto THEN types
                   ELSE SetOwn(types, type, <<>>)
         bucket == IF onProto
                   THEN (IF HasOwn(inherited, type) THEN GetOwn(inherited, type)
                         ELSE <<>>)
                   ELSE GetOwn(types1, type)
         \* bucket[category] is an inherited function: it has no push()
         throws == ~HasOwn(bucket, category) /\ category \in ObjectPrototypeKeys
         list == IF HasOwn(bucket, category) THEN GetOwn(bucket, category)
                 ELSE <<>>
         bucket1 == SetOwn(bucket, category, Append(list, commit))
     IN IF throws
        THEN /\ pc' = "rejected"
             /\ types' = types1
             /\ UNCHANGED << index, inherited >>
        ELSE /\ pc' = pc
             /\ index' = index + 1
             /\ IF onProto
                THEN /\ inherited' = SetOwn(inherited, type, bucket1)
                     /\ types' = types
                ELSE /\ types' = SetOwn(types1, type, bucket1)
                     /\ UNCHANGED inherited
  /\ UNCHANGED << version, commits, options, date, keys, keyIndex, content,
                  result >>

\* Lines 85-87: the first .then().
SortKeys ==
  /\ pc = "group"
  /\ index = Len(commits)
  /\ keys' = Sort(ObjectKeys(types))
  /\ pc' = "render"
  /\ UNCHANGED << version, commits, options, date, index, types, inherited,
                  keyIndex, content, result >>

\* Lines 88-156: the callback of the second .each(), for one type.
RenderType ==
  /\ pc = "render"
  /\ keyIndex < Len(keys)
  /\ \E acc \in { RenderSection(keys[keyIndex + 1],
                                 GetOwn(types, keys[keyIndex + 1]),
                                 options, content) } :
       /\ content' = acc.content
       /\ pc' = IF acc.threw THEN "rejected" ELSE pc
       /\ keyIndex' = IF acc.threw THEN keyIndex ELSE keyIndex + 1
  /\ UNCHANGED << version, commits, options, date, index, types, inherited,
                  keys, result >>

\* Lines 157-160: the last .then().
Finish ==
  /\ pc = "render"
  /\ keyIndex = Len(keys)
  /\ content' = Append(content, <<>>)
  /\ result' = Join(content', <<"\n">>)
  /\ pc' = "done"
  /\ UNCHANGED << version, commits, options, date, index, types, inherited,
                  keys, keyIndex >>

\* ------------------------------------------------------------------------
\* The calls explored
\* ------------------------------------------------------------------------

\* The longest commits array.
MaxCommits == 3

\* A parsed commit without its hash; hash is a placeholder, or undefined.
Shape(type, category, subject, body, flag) ==
  [hash |-> <<>>, type |-> type, category |-> category, subject |-> subject,
   body |-> body, flagIfBreaking |-> flag]

\* The hash of the n-th commit: ten characters, different for each n.
HashAt(n) == << <<"0", "1", "2", "3", "4", "5", "6", "7", "8", "9">>[n + 1] >> \o <<"a", "2", "b", "3", "c", "4", "d", "5", "e">>

\* The array whose n-th commit is the pick[n]-th shape, with its hash.
CommitArray(shapes, pick) ==
  [n \in DOMAIN pick |->
     [shapes[pick[n]] EXCEPT
        !.hash = IF @ = Undefined THEN Undefined ELSE HashAt(n)]]

\* The ways to pick at most MaxCommits shapes, in order.
Picks(shapes) ==
  UNION { [1..len -> 1..Len(shapes)] : len \in 0..MaxCommits }

\* Types and categories: known and unknown tokens, an upper-case token,
\* categories that are array indices, names inherited from Object.prototype.
GroupShapes ==
  << Shape(<<"f", "e", "a", "t">>, <<>>, <<"a", "d", "d", " ", "x">>, <<>>, <<>>),
    Shape(<<"f", "e", "a", "t">>, <<"b">>, <<"a", "d", "d", " ", "x">>, <<>>, <<>>),
    Shape(<<"f", "e", "a", "t">>, <<"2">>, <<"a", "d", "d", " ", "x">>, <<>>, <<>>),
    Shape(<<"b", "r", "e", "a", "k", "i", "n", "g">>, <<>>, <<"d", "r", "o", "p", " ", "y">>, <<"w", "h", "y">>, <<>>),
    Shape(<<"z", "z", "z">>, <<>>, <<"a", "d", "d", " ", "x">>, <<>>, <<>>),
    Shape(<<"Z", "e", "d">>, <<"b">>, <<"a", "d", "d", " ", "x">>, <<>>, <<>>),
    Shape(<<"c", "o", "n", "s", "t", "r", "u", "c", "t", "o", "r">>, <<>>, <<"a", "d", "d", " ", "x">>, <<>>, <<>>),
    Shape(<<"o", "t", "h", "e", "r">>, <<"c", "o", "n", "s", "t", "r", "u", "c", "t", "o", "r">>, <<"a", "d", "d", " ", "x">>, <<>>, <<>>) >>

\* Subjects with and without pull request references.
LinkShapes ==
  << Shape(<<"f", "e", "a", "t">>, <<>>, <<"f", "i", "x", " ", "b", "u", "g", " ", "(", "#", "1", "2", ")">>, <<"w", "h", "y">>, <<>>),
     Shape(<<"b", "r", "e", "a", "k", "i", "n", "g">>, <<>>, <<"f", "i", "x", " ", "b", "u", "g", " ", "(", "#", "1", "2", ")">>, <<"w", "h", "y">>, <<>>),
     Shape(<<"f", "e", "a", "t">>, <<>>, <<" ", "a", " ", "#", "0", " ", "b", "#", "7", "#", "2", "3", " ">>, <<"w", "h", "y">>, <<>>),
     Shape(<<"b", "r", "e", "a", "k", "i", "n", "g">>, <<>>, <<"n", "o", " ", "r", "e", "f", "s">>, <<"w", "h", "y">>, <<>>) >>

RepoUrls ==
  { <<>>, <<"h", "t", "t", "p", "s", ":", "/", "/", "g", "i", "t", "h", "u", "b", ".", "c", "o", "m", "/", "x", "/", "y">>, <<"h", "t", "t", "p", "s", ":", "/", "/", "b", "i", "t", "b", "u", "c", "k", "e", "t", ".", "o", "r", "g", "/", "x", "/", "y">>,
    <<"h", "t", "t", "p", "s", ":", "/", "/", "g", "i", "t", "l", "a", "b", ".", "c", "o", "m", "/", "x", "/", "y", ".", "g", "i", "t">>, <<"h", "t", "t", "p", "s", ":", "/", "/", "g", "i", "t", "l", "a", "b", ".", "c", "o", "m", "/", "x", "/", "y">>,
    <<"h", "t", "t", "p", "s", ":", "/", "/", "g", "i", "t", "h", "u", "b", ".", "c", "o", "m", "/", "x", "/", "y", ".", "g", "i", "t">> }

\* Bodies with and without trailers.
BodyShapes ==
  << Shape(<<"b", "r", "e", "a", "k", "i", "n", "g">>, <<>>, <<"d", "r", "o", "p", " ", "y">>, <<>>, <<>>),
    Shape(<<"b", "r", "e", "a", "k", "i", "n", "g">>, <<>>, <<"d", "r", "o", "p", " ", "y">>, <<"a", "\n", "b", "\n", "\n", "C", "l", "o", "s", "e", "s", " ", "#", "3", "\n", "c", "\n", "d", "\n", "e">>, <<"B", "R", "E", "A", "K", "I", "N", "G">>),
    Shape(<<"b", "r", "e", "a", "k", "i", "n", "g">>, <<"b">>, <<"d", "r", "o", "p", " ", "y">>, <<"S", "e", "e", " ", "a", "\n", "b", "\n", "S", "e", "e", " ", "c">>, <<>>),
    Shape(<<"b", "r", "e", "a", "k", "i", "n", "g">>, <<>>, <<"d", "r", "o", "p", " ", "y">>, <<"a", "\n", "\n", "\n", "S", "e", "e", " ", "b", "\n", "c", "\n", "d", "\n", "e", "\n", "f", "\n", "\n">>, <<>>),
    Shape(<<"b", "r", "e", "a", "k", "i", "n", "g">>, <<"b">>, <<"d", "r", "o", "p", " ", "y">>,
          <<"a", "\n", "E", "N", "D", " ", "B", "R", "E", "A", "K", "I", "N", "G", " ", "C", "H", "A", "N", "G", "E", "\n", "b", "\n", "c", "\n", "\n", "d", "\n", "e", "\n", "f", "\n", "g", "\n", "C", "l", "o", "s", "e", "s", " ", "#", "1">>, <<>>),
    Shape(<<"f", "e", "a", "t">>, <<>>, <<"a", "d", "d", " ", "x">>, <<"a", "\n", "S", "e", "e", " ", "b">>, <<"B", "R", "E", "A", "K", "I", "N", "G">>) >>

\* Commits with a missing hash or subject.
MissingShapes ==
  << Shape(<<"f", "e", "a", "t">>, <<>>, <<"a", "d", "d", " ", "x">>, <<>>, <<>>),
    [Shape(<<"f", "e", "a", "t">>, <<>>, <<"a", "d", "d", " ", "x">>, <<>>, <<>>) EXCEPT !.hash = Undefined],
    Shape(<<"f", "e", "a", "t">>, <<>>, Undefined, <<>>, <<>>),
    Shape(<<"b", "r", "e", "a", "k", "i", "n", "g">>, <<>>, Undefined, <<>>, <<>>) >>

Versions == { <<>>, <<"1", ".", "9", ".", "8">> }

Dates == { <<"2", "0", "2", "4", "-", "0", "1", "-", "2", "4">> }

Options(major, minor, allowUnknown, repoUrl) ==
  [major |-> major, minor |-> minor, allowUnknown |-> allowUnknown,
   repoUrl |-> repoUrl]

\* Lines 53-72: the state when markdown() has built the heading and the
\* promise chain has not started, for the arguments (ver, list, opts).
Called(ver, list, opts) ==
  /\ version = ver
  /\ commits = list
  /\ options = opts
  /\ date \in Dates
  /\ pc = "group"
  /\ index = 0
  /\ types = <<>>
  /\ inherited = <<>>
  /\ keys = <<>>
  /\ keyIndex = 0
  /\ content = << Heading(ver, opts, date), <<>> >>
  /\ result = <<>>

Init ==
  \/ \E pick \in Picks(GroupShapes), u \in BOOLEAN :
       Called(<<>>, CommitArray(GroupShapes, pick),
              Options(FALSE, FALSE, u, <<>>))
  \/ \E pick \in Picks(LinkShapes), r \in RepoUrls :
       Called(<<>>, CommitArray(LinkShapes, pick),
              Options(FALSE, FALSE, FALSE, r))
  \/ \E pick \in Picks(BodyShapes) :
       Called(<<>>, CommitArray(BodyShapes, pick),
              Options(FALSE, FALSE, FALSE, <<>>))
  \/ \E v \in Versions, major \in BOOLEAN, minor \in BOOLEAN :
       Called(v, CommitArray(<< Shape(<<"f", "i", "x">>, <<>>, <<"f", "i", "x", " ", "z">>, <<>>, <<>>) >>, << 1 >>),
              Options(major, minor, FALSE, <<>>))

Next == GroupCommit \/ SortKeys \/ RenderType \/ Finish

Spec == Init /\ [][Next]_vars

\* The calls with commits that lack a hash or a subject.
InitMissing ==
  \E pick \in Picks(MissingShapes), r \in { <<>>, <<"h", "t", "t", "p", "s", ":", "/", "/", "g", "i", "t", "h", "u", "b", ".", "c", "o", "m", "/", "x", "/", "y">> } :
    Called(<<>>, CommitArray(MissingShapes, pick), Options(FALSE, FALSE, FALSE, r))

SpecMissing == InitMissing /\ [][Next]_vars

\* ------------------------------------------------------------------------
\* Reading the output
\* ------------------------------------------------------------------------

\* p occurs in s at the place k (from 0).
OccursAt(s, p, k) ==
  p = <<>> \/ (s[k + 1] = p[1] /\ SubSeq(s, k + 1, k + Len(p)) = p)

Contains(s, p) == \E k \in 0..(Len(s) - Len(p)) : OccursAt(s, p, k)

StartsWith(s, p) == Len(s) >= Len(p) /\ SubSeq(s, 1, Len(p)) = p

EndsWith(s, p) ==
  Len(s) >= Len(p) /\ SubSeq(s, Len(s) - Len(p) + 1, Len(s)) = p

\* The number of places of s where p occurs.
Occurrences(s, p) ==
  Cardinality({ k \in 0..(Len(s) - Len(p)) : OccursAt(s, p, k) })

\* The first eight characters of the hash of the n-th commit.
ShortOf(n) == SubSeq(commits[n].hash, 1, 8)

\* The elements of content that render the n-th commit: the hashes of the
\* commits of one call differ in their first character.
EntriesOf(n) == { k \in DOMAIN content : Contains(content[k], ShortOf(n)) }

EntryOf(n) == CHOOSE k \in EntriesOf(n) : TRUE

Rendered == { n \in DOMAIN commits : EntriesOf(n) # {} }

IsSectionHeading(e) == StartsWith(e, <<"#", "#", "#", "#", "#", " ">>)

\* The positions of the section headings in content.
SectionHeadings == { k \in DOMAIN content : IsSectionHeading(content[k]) }

\* The position of the heading of the section that element k is in.
SectionOf(k) ==
  CHOOSE h \in SectionHeadings : h < k /\ \A g \in SectionHeadings : g < k => g <= h

\* The places <<type, category, position>> of this.types where the n-th
\* commit is stored.
PlacesOf(n) ==
  UNION { UNION { { << i, j, m >> : m \in { m \in DOMAIN types[i].val[j].val :
                                              types[i].val[j].val[m] = commits[n] } }
                  : j \in DOMAIN types[i].val }
          : i \in DOMAIN types }

\* ------------------------------------------------------------------------
\* Properties
\* ------------------------------------------------------------------------

CatalogHeading(type) ==
  IF \E n \in DOMAIN TYPES : TYPES[n].key = type
  THEN TYPES[CHOOSE n \in DOMAIN TYPES : TYPES[n].key = type].val
  ELSE LET other == TYPES[CHOOSE n \in DOMAIN TYPES : TYPES[n].key = <<"o", "t", "h", "e", "r">>].val
       IN IF options.allowUnknown THEN other \o <<" ", "(">> \o type \o <<")">> ELSE other

IsUnknownType(type) == \A n \in DOMAIN TYPES : TYPES[n].key # type

ResolvedKeys == { types[i].key : i \in DOMAIN types }

\* The heading of a resolved type key.
KeyHeading(key) == <<"#", "#", "#", "#", "#", " ">> \o CatalogHeading(key)

\* C3: the section headings of the output are the headings of the resolved
\* type keys, one section for each key, in ascending order of the keys by
\* code units, whatever the order of the commits.
C3_SectionsSorted ==
  pc = "done" =>
    /\ \A key \in ResolvedKeys :
         Cardinality({ k \in SectionHeadings : content[k] = KeyHeading(key) }) = 1
    /\ \A k \in SectionHeadings : \E key \in ResolvedKeys : content[k] = KeyHeading(key)
    /\ \A a, b \in ResolvedKeys :
         StrLess(a, b) =>
           \A k, h \in SectionHeadings :
             (content[k] = KeyHeading(a) /\ content[h] = KeyHeading(b)) => k < h

\* Three sections, the commits of which arrive in descending order of type.
C3_Witness ==
  /\ pc = "done"
  /\ Cardinality(SectionHeadings) >= 3
  /\ \E n, m \in Rendered :
       n < m /\ StrLess(commits[m].type, commits[n].type)
            /\ EntryOf(m) < EntryOf(n)

\* The first commit of the input with the type and category of the n-th.
FirstSeen(n) ==
  CHOOSE f \in Rendered :
    /\ SectionOf(EntryOf(f)) = SectionOf(EntryOf(n))
    /\ commits[f].category = commits[n].category
    /\ \A g \in Rendered :
         ( SectionOf(EntryOf(g)) = SectionOf(EntryOf(n))
           /\ commits[g].category = commits[n].category ) => f <= g

\* C4: inside a section the categories come in the order in which they
\* were first seen in the input, for any category strings, and the commits
\* of one category come in input order.
C4_CategoriesFirstSeen ==
  pc = "done" =>
    \A n, m \in Rendered :
      SectionOf(EntryOf(n)) = SectionOf(EntryOf(m)) =>
        /\ FirstSeen(n) < FirstSeen(m) => EntryOf(n) < EntryOf(m)
        /\ (commits[n].category = commits[m].category /\ n < m)
             => EntryOf(n) < EntryOf(m)

\* The commit URL as the provider rules state it: the segment is 'commits'
\* for a URL that contains "bitbucket", and a final ".git" is dropped from a
\* URL that contains "gitlab".
ProviderCommitUrl(repoUrl, hash) ==
  LET segment == IF Contains(repoUrl, <<"b", "i", "t", "b", "u", "c", "k", "e", "t">>) THEN <<"c", "o", "m", "m", "i", "t", "s">> ELSE <<"c", "o", "m", "m", "i", "t">>
      base == IF Contains(repoUrl, <<"g", "i", "t", "l", "a", "b">>) /\ EndsWith(repoUrl, <<".", "g", "i", "t">>)
              THEN SubSeq(repoUrl, 1, Len(repoUrl) - 4)
              ELSE repoUrl
  IN base \o <<"/">> \o segment \o <<"/">> \o hash

\* C5: without options.repoUrl no element of the output holds link or anchor
\* markup, and the subject and the short hash of every entry are plain text;
\* with options.repoUrl the short hash of every entry is the text of a link
\* to <base>/<segment>/<hash>.
C5_HashLinks ==
  pc = "done" =>
    IF options.repoUrl = <<>>
    THEN /\ \A k \in DOMAIN content :
              /\ ~Contains(content[k], <<"]", "(">>)
              /\ ~Contains(content[k], <<"<", "a", " ">>)
              /\ ~Contains(content[k], <<"h", "t", "t", "p">>)
         /\ \A n \in Rendered :
              Contains(content[EntryOf(n)],
                       Trim(commits[n].subject) \o <<" ", "(">> \o ShortOf(n) \o <<")">>)
    ELSE \A n \in Rendered :
           LET url == ProviderCommitUrl(options.repoUrl, commits[n].hash)
           IN \/ Contains(content[EntryOf(n)],
                          <<" ", "(", "[">> \o ShortOf(n) \o <<"]", "(">> \o url \o <<")", ")">>)
              \/ Contains(content[EntryOf(n)],
                          <<" ", "(", "<", "a", " ", "h", "r", "e", "f", "=", "\"">> \o url \o <<"\"", ">">> \o ShortOf(n) \o <<"<", "/", "a", ">", ")">>)

\* A gitlab URL that ends with .git, with a breaking and an ordinary
\* commit rendered.
C5_Witness ==
  /\ pc = "done"
  /\ options.repoUrl = <<"h", "t", "t", "p", "s", ":", "/", "/", "g", "i", "t", "l", "a", "b", ".", "c", "o", "m", "/", "x", "/", "y", ".", "g", "i", "t">>
  /\ \E n, m \in Rendered :
       commits[n].type = <<"b", "r", "e", "a", "k", "i", "n", "g">> /\ commits[m].type # <<"b", "r", "e", "a", "k", "i", "n", "g">>

\* The places of a subject where a pull request reference starts: a '#'
\* followed by a digit other than 0.
PrRefs(subject) ==
  { p \in 1..(Len(subject) - 1) :
      subject[p] = "#" /\ subject[p + 1] \in Digits \ {"0"} }

\* The number of the reference that starts at p: all the digits after the '#'.
PrNumber(subject, p) ==
  SubSeq(subject, p + 1,
         CHOOSE q \in (p + 1)..Len(subject) :
           /\ \A r \in (p + 1)..q : subject[r] \in Digits
           /\ q = Len(subject) \/ subject[q + 1] \notin Digits)

\* C6: with options.repoUrl, the entry of a commit of type 'breaking' holds
\* HTML anchors only, one for the hash and one for each pull request
\* reference of the subject, and the entry of any other commit holds Markdown
\* links only, likewise; the link of the reference #<n> goes to
\* <repoUrl>/pull/<n>.
C6_OneLinkStyle ==
  (pc = "done" /\ options.repoUrl # <<>>) =>
    \A n \in Rendered :
      LET e == content[EntryOf(n)]
          subject == commits[n].subject
          refs == PrRefs(subject)
      IN IF commits[n].type = <<"b", "r", "e", "a", "k", "i", "n", "g">>
         THEN /\ ~Contains(e, <<"]", "(">>)
              /\ Occurrences(e, <<"<", "a", " ", "h", "r", "e", "f", "=", "\"">>) = 1 + Cardinality(refs)
              /\ \A p \in refs :
                   Contains(e, <<"<", "a", " ", "h", "r", "e", "f", "=", "\"">> \o options.repoUrl \o <<"/", "p", "u", "l", "l", "/">>
                               \o PrNumber(subject, p) \o <<"\"", ">", "#">>
                               \o PrNumber(subject, p) \o <<"<", "/", "a", ">">>)
         ELSE /\ ~Contains(e, <<"<", "a", " ", "h", "r", "e", "f", "=", "\"">>)
              /\ Occurrences(e, <<"]", "(">>) = 1 + Cardinality(refs)
              /\ \A p \in refs :
                   Contains(e, <<"[", "#">> \o PrNumber(subject, p) \o <<"]", "(">>
                               \o options.repoUrl \o <<"/", "p", "u", "l", "l", "/">>
                               \o PrNumber(subject, p) \o <<")">>)

\* A breaking commit and an ordinary one, each with a pull request
\* reference in its subject, rendered with links.
C6_Witness ==
  /\ pc = "done"
  /\ options.repoUrl # <<>>
  /\ \E n, m \in Rendered :
       /\ commits[n].type = <<"b", "r", "e", "a", "k", "i", "n", "g">> /\ PrRefs(commits[n].subject) # {}
       /\ commits[m].type # <<"b", "r", "e", "a", "k", "i", "n", "g">> /\ Cardinality(PrRefs(commits[m].subject)) = 2

\* The first place (from 0) of s where p occurs.
FirstPlace(s, p) ==
  CHOOSE k \in 0..(Len(s) - Len(p)) :
    /\ OccursAt(s, p, k)
    /\ \A h \in 0..(k - 1) : ~OccursAt(s, p, h)

\* The text between <summary> and </summary> of a collapsible block.
SummaryOf(e) ==
  SubSeq(e, FirstPlace(e, <<"<", "s", "u", "m", "m", "a", "r", "y", ">">>) + 10, FirstPlace(e, <<"<", "/", "s", "u", "m", "m", "a", "r", "y", ">", "\n", "\n">>))

\* The text between the blank line after the summary and </details>.
BodyOf(e) == SubSeq(e, FirstPlace(e, <<"<", "/", "s", "u", "m", "m", "a", "r", "y", ">", "\n", "\n">>) + 13, Len(e) - 10)

\* Every line of the text starts with six spaces.
Indented(text) ==
  \A p \in 1..(Len(text) + 1) :
    (p = 1 \/ text[p - 1] = "\n") =>
      (p + 5 <= Len(text) /\ SubSeq(text, p, p + 5) = <<" ", " ", " ", " ", " ", " ">>)

\* The prefix of a commit with flagIfBreaking.
FlagOf(n) ==
  IF commits[n].flagIfBreaking = <<>> THEN <<>>
  ELSE <<"(">> \o commits[n].flagIfBreaking \o <<")", ":", " ">>

\* The element is a collapsible block for the n-th commit: <details>, the
\* summary, a blank line, the indented body, </details>.
IsDetailsBlock(e, n) ==
  /\ Occurrences(e, <<"<", "d", "e", "t", "a", "i", "l", "s", ">", "\n", " ", " ", " ", " ", " ", " ", "<", "s", "u", "m", "m", "a", "r", "y", ">">>) = 1
  /\ Occurrences(e, <<"<", "/", "s", "u", "m", "m", "a", "r", "y", ">", "\n", "\n">>) = 1
  /\ EndsWith(e, <<"<", "/", "d", "e", "t", "a", "i", "l", "s", ">">>)
  /\ StartsWith(SummaryOf(e), FlagOf(n))
  /\ EndsWith(SummaryOf(e), <<")">>)
  /\ options.repoUrl = <<>> =>
       SummaryOf(e) = FlagOf(n) \o Trim(commits[n].subject) \o <<" ", "(">> \o ShortOf(n) \o <<")">>
  /\ Indented(BodyOf(e))
  /\ commits[n].body = <<>> => BodyOf(e) = <<" ", " ", " ", " ", " ", " ">>

\* The element is a one-line entry for the n-th commit.
IsOneLine(e, n) ==
  /\ ~Contains(e, <<"<", "d", "e", "t", "a", "i", "l", "s", ">">>)
  /\ ~Contains(e, <<"\n">>)
  /\ EndsWith(e, <<")">>)
  /\ options.repoUrl = <<>> =>
       EndsWith(e, <<" ">> \o FlagOf(n) \o Trim(commits[n].subject)
                   \o <<" ", "(">> \o ShortOf(n) \o <<")">>)

\* C7 as stated: every commit, whatever its resolved type, is rendered as a
\* collapsible block.
C7_EveryCommitCollapsible ==
  pc = "done" => \A n \in Rendered : IsDetailsBlock(content[EntryOf(n)], n)

\* C7: a commit of resolved type 'breaking' is rendered as a collapsible
\* block (the body indented by six spaces; six spaces alone for an empty
\* body), and a commit of any other type as one line without its body.
C7_BreakingCollapsible ==
  pc = "done" =>
    \A n \in Rendered :
      IF commits[n].type = <<"b", "r", "e", "a", "k", "i", "n", "g">>
      THEN IsDetailsBlock(content[EntryOf(n)], n)
      ELSE IsOneLine(content[EntryOf(n)], n)

\* A breaking commit with a body of several lines, a breaking commit with an
\* empty body and an ordinary commit with a body, all rendered.
C7_Witness ==
  /\ pc = "done"
  /\ \E n, m, o \in Rendered :
       /\ commits[n].type = <<"b", "r", "e", "a", "k", "i", "n", "g">> /\ Contains(commits[n].body, <<"\n">>)
       /\ commits[m].type = <<"b", "r", "e", "a", "k", "i", "n", "g">> /\ commits[m].body = <<>>
       /\ commits[o].type = <<"f", "e", "a", "t">> /\ commits[o].body # <<>>

\* C8: the promise is never rejected, whether or not a commit lacks its
\* hash or its subject.
C8_NeverRejected == pc # "rejected"

\* The rendered commits in the section and with the category of the n-th:
\* its bucket.
BucketOf(n) ==
  { m \in Rendered :
      /\ SectionOf(EntryOf(m)) = SectionOf(EntryOf(n))
      /\ commits[m].category = commits[n].category }

\* The line that heads a category with several commits.
CategoryLine(category) == <<"*", " ", "*", "*">> \o category \o <<":", "*", "*">>

\* The places of the category line of the n-th commit in its section.
CategoryLinesOf(n) ==
  { k \in DOMAIN content :
      /\ content[k] = CategoryLine(commits[n].category)
      /\ SectionOf(k) = SectionOf(EntryOf(n)) }

\* The layout of the bucket of the n-th commit when its category is not
\* empty: one category line and nested entries right below it for several
\* commits, a flat entry with the label and no category line for one.
LabelledLayout(n) ==
  LET e == content[EntryOf(n)]
      category == commits[n].category
      bucket == BucketOf(n)
  IN IF Cardinality(bucket) > 1
     THEN /\ Cardinality(CategoryLinesOf(n)) = 1
          /\ LET line == CHOOSE k \in CategoryLinesOf(n) : TRUE
             IN { EntryOf(m) : m \in bucket }
                  = (line + 1)..(line + Cardinality(bucket))
          /\ StartsWith(e, <<" ", " ", "*">>)
     ELSE /\ CategoryLinesOf(n) = {}
          /\ StartsWith(e, CategoryLine(category) \o <<" ">>)

\* C9 as stated: the layout of a bucket with a category, and a flat `* `
\* entry without any label for every commit of a bucket without category.
C9_FlatWithoutCategory ==
  pc = "done" =>
    \A n \in Rendered :
      IF commits[n].category # <<>>
      THEN LabelledLayout(n)
      ELSE /\ StartsWith(content[EntryOf(n)], <<"*", " ">>)
           /\ ~StartsWith(content[EntryOf(n)], <<"*", " ", "*", "*">>)

\* C9: the layout of a bucket with a category; without category every
\* commit is an entry without label, which starts with `* ` for a type
\* other than 'breaking' and with ` * <details>` for the type 'breaking'.
C9_CategoryLayout ==
  pc = "done" =>
    \A n \in Rendered :
      IF commits[n].category # <<>>
      THEN LabelledLayout(n)
      ELSE /\ IF commits[n].type = <<"b", "r", "e", "a", "k", "i", "n", "g">>
              THEN StartsWith(content[EntryOf(n)], <<" ", "*", " ", "<", "d", "e", "t", "a", "i", "l", "s", ">">>)
              ELSE StartsWith(content[EntryOf(n)], <<"*", " ">>)
           /\ ~Contains(content[EntryOf(n)], <<"*", " ", "*", "*">>)

\* A category of two commits under its category line, next to a breaking
\* commit without category.
C9_Witness ==
  /\ pc = "done"
  /\ \E n, m \in Rendered :
       /\ n # m /\ m \in BucketOf(n) /\ commits[n].category # <<>>
  /\ \E n \in Rendered : commits[n].category = <<>> /\ commits[n].type = <<"b", "r", "e", "a", "k", "i", "n", "g">>

\* The lines of a text.
RECURSIVE LinesFrom(_, _, _)
LinesFrom(text, p, line) ==
  IF p > Len(text) THEN << line >>
  ELSE IF text[p] = "\n" THEN << line >> \o LinesFrom(text, p + 1, <<>>)
  ELSE LinesFrom(text, p + 1, Append(line, text[p]))

Lines(text) == LinesFrom(text, 1, <<>>)

\* The text of the lines, each with the indent before it.
RECURSIVE Unlines(_, _)
Unlines(lines, indent) ==
  IF Len(lines) = 1 THEN indent \o lines[1]
  ELSE indent \o lines[1] \o <<"\n">> \o Unlines(Tail(lines), indent)

Markers == { <<"E", "N", "D", " ", "B", "R", "E", "A", "K", "I", "N", "G", " ", "C", "H", "A", "N", "G", "E">>, <<"S", "e", "e">>, <<"C", "l", "o", "s", "e", "s">> }

\* C10 as stated: in the rendered body of a commit no line is left that
\* starts with a marker, the first line included.
C10_NoMarkerLineLeft ==
  pc = "done" =>
    \A n \in Rendered :
      (commits[n].type = <<"b", "r", "e", "a", "k", "i", "n", "g">> /\ commits[n].body # <<>>) =>
        \A line \in { Lines(BodyOf(content[EntryOf(n)]))[k] :
                        k \in DOMAIN Lines(BodyOf(content[EntryOf(n)])) } :
          \A marker \in Markers : ~StartsWith(line, <<" ", " ", " ", " ", " ", " ">> \o marker)

\* The last line of the block whose marker line is the i-th line, taken
\* from line c on: `more` times the next line that is not empty, or the
\* last line of the text when only empty lines follow.
RECURSIVE BlockEnd(_, _, _)
BlockEnd(lines, c, more) ==
  IF more = 0 THEN c
  ELSE LET next == { d \in (c + 1)..Len(lines) : lines[d] # <<>> }
       IN BlockEnd(lines,
                   IF next = {} THEN Len(lines)
                   ELSE CHOOSE d \in next : \A g \in next : d <= g,
                   more - 1)

\* The lines without the empty lines at their end, the first line kept.
RECURSIVE DropEmptyEnd(_)
DropEmptyEnd(lines) ==
  IF Len(lines) > 1 /\ lines[Len(lines)] = <<>>
  THEN DropEmptyEnd(SubSeq(lines, 1, Len(lines) - 1))
  ELSE lines

\* One step of the stripping, on lines: from the second line on, a line
\* that starts with the marker is dropped together with the empty lines
\* right above it and the `more` next lines that are not empty (and the
\* empty lines among them); a line of one space stands for all of them.
RECURSIVE StripLines(_, _, _, _, _)
StripLines(lines, i, marker, more, out) ==
  IF i > Len(lines) THEN out
  ELSE IF StartsWith(lines[i], marker)
       THEN StripLines(lines, BlockEnd(lines, i, more) + 1, marker, more,
                       Append(DropEmptyEnd(out), <<" ">>))
       ELSE StripLines(lines, i + 1, marker, more, Append(out, lines[i]))

StripStep(lines, marker, more) == StripLines(lines, 2, marker, more, << lines[1] >>)

\* C10: the rendered body of a commit with a body is the body after the
\* three steps END BREAKING CHANGE (4 lines after the marker line), See (3)
\* and Closes (2), none of which touches the first line of the body.
C10_TrailersStripped ==
  pc = "done" =>
    \A n \in Rendered :
      (commits[n].type = <<"b", "r", "e", "a", "k", "i", "n", "g">> /\ commits[n].body # <<>>) =>
        /\ BodyOf(content[EntryOf(n)]) =
             Unlines(StripStep(StripStep(StripStep(Lines(commits[n].body),
                                                   <<"E", "N", "D", " ", "B", "R", "E", "A", "K", "I", "N", "G", " ", "C", "H", "A", "N", "G", "E">>, 4),
                                         <<"S", "e", "e">>, 3),
                               <<"C", "l", "o", "s", "e", "s">>, 2),
                     <<" ", " ", " ", " ", " ", " ">>)
        /\ Lines(BodyOf(content[EntryOf(n)]))[1]
             = <<" ", " ", " ", " ", " ", " ">> \o Lines(commits[n].body)[1]

\* Rendered bodies with a marker on the first line, with a block cut short
\* by the end of the body and with a block that ends before the body does.
C10_Witness ==
  /\ pc = "done"
  /\ \E n, m, o \in Rendered :
       /\ commits[n].type = <<"b", "r", "e", "a", "k", "i", "n", "g">> /\ StartsWith(commits[n].body, <<"S", "e", "e">>)
       /\ commits[m].type = <<"b", "r", "e", "a", "k", "i", "n", "g">> /\ Contains(commits[m].body, <<"\n", "C", "l", "o", "s", "e", "s">>)
       /\ commits[o].type = <<"b", "r", "e", "a", "k", "i", "n", "g">> /\ Contains(commits[o].body, <<"\n", "E", "N", "D", " ", "B", "R", "E", "A", "K", "I", "N", "G">>)

====
